---- MODULE Spec2Model ----
(***************************************************************************)
(* git-ai: the command-line proxy of src/src/main.rs.                      *)
(*                                                                         *)
(* One behaviour of this module is one invocation of the binary: Init is   *)
(* the state right after Cli::parse() (the parsed command line, the        *)
(* environment and the git configuration the process was started with),    *)
(* and every action is one step of main() or of one of its handlers, cut   *)
(* at the calls that leave the process (repository discovery, the          *)
(* authorship engine, child processes).  Every such call is appended to    *)
(* `calls`, every line written to the error stream to `stderr`.            *)
(*                                                                         *)
(* Strings are TLA+ strings; a u32 is kept as its canonical decimal        *)
(* numeral (TLC's integers are 32 bit signed and cannot hold 2^32 - 1).    *)
(***************************************************************************)
EXTENDS Integers, Sequences, FiniteSets, TLC

VARIABLES
    cli,                \* the parsed command line: [command, git_args]
    environ,            \* the environment of the process: a set of <<key, value>>
    debug_assertions,   \* cfg!(debug_assertions) of the build
    git_config,         \* git's configuration store: key -> sequence of values
    pc,                 \* the position of the process
    repo,               \* whether a repository handle is held
    default_user_name,  \* the local of that name ("" before it is set)
    new_args,           \* proxy_to_git: the arguments given to git_cmd
    calls,              \* every external operation invoked so far, in order
    stderr,             \* the lines written to the error stream, in order
    exit_code           \* the exit code of the process (None while it runs)

vars == <<cli, environ, debug_assertions, git_config, pc, repo,
          default_user_name, new_args, calls, stderr, exit_code>>

\* Option<T>: None is the empty sequence, Some(x) the sequence of x alone
None == << >>
Some(x) == << x >>
IsSome(o) == o # << >>
Unwrap(o) == o[1]

-----------------------------------------------------------------------------
(* Bounds of the model.                                                    *)

\* longest blame target enumerated exhaustively over FileAlphabet
MaxFileLen == 4
\* most values one configuration key holds
MaxRefspecs == 2
\* most trailing arguments after the git subcommand
MaxArgs == 2

-----------------------------------------------------------------------------
(* str: the operations of Rust's str that the program uses.                *)

CharAt(s, i) == SubSeq(s, i, i)

\* str::find(char): the position of the first occurrence, 0 for None
find(s, c) ==
    IF \E i \in 1..Len(s) : CharAt(s, i) = c
    THEN CHOOSE i \in 1..Len(s) :
             /\ CharAt(s, i) = c
             /\ \A j \in 1..(i - 1) : CharAt(s, j) # c
    ELSE 0

\* str::rfind(char): the position of the last occurrence, 0 for None
rfind(s, c) ==
    IF \E i \in 1..Len(s) : CharAt(s, i) = c
    THEN CHOOSE i \in 1..Len(s) :
             /\ CharAt(s, i) = c
             /\ \A j \in (i + 1)..Len(s) : CharAt(s, j) # c
    ELSE 0

\* str::starts_with(char)
starts_with(s, c) == Len(s) >= 1 /\ CharAt(s, 1) = c

Whitespace == {" ", "\t", "\n", "\r"}

\* str::trim(): without its leading and trailing whitespace
trim(s) ==
    IF \A i \in 1..Len(s) : CharAt(s, i) \in Whitespace
    THEN ""
    ELSE LET first == CHOOSE i \in 1..Len(s) :
                          /\ CharAt(s, i) \notin Whitespace
                          /\ \A j \in 1..(i - 1) : CharAt(s, j) \in Whitespace
             last  == CHOOSE i \in 1..Len(s) :
                          /\ CharAt(s, i) \notin Whitespace
                          /\ \A j \in (i + 1)..Len(s) : CharAt(s, j) \in Whitespace
         IN  SubSeq(s, first, last)

\* one line of str::lines(): a trailing carriage return is not part of it
StripCR(s) ==
    IF Len(s) >= 1 /\ CharAt(s, Len(s)) = "\r" THEN SubSeq(s, 1, Len(s) - 1) ELSE s

\* str::lines(): split at every line feed; no last line after a final line feed
RECURSIVE lines(_)
lines(s) ==
    IF s = "" THEN << >>
    ELSE LET nl == find(s, "\n")
         IN  IF nl = 0 THEN << StripCR(s) >>
             ELSE << StripCR(SubSeq(s, 1, nl - 1)) >>
                      \o lines(SubSeq(s, nl + 1, Len(s)))

Digits == <<"0", "1", "2", "3", "4", "5", "6", "7", "8", "9">>

IsDigit(c) == \E d \in 1..10 : Digits[d] = c

DigitVal(c) == (CHOOSE d \in 1..10 : Digits[d] = c) - 1

\* u32::MAX as a numeral
U32_MAX == "4294967295"

\* a numeral without its leading zeros ("0" for zero)
RECURSIVE Canonical(_)
Canonical(ds) ==
    IF Len(ds) > 1 /\ CharAt(ds, 1) = "0"
    THEN Canonical(SubSeq(ds, 2, Len(ds)))
    ELSE ds

\* a < b for canonical numerals a and b
NumeralLess(a, b) ==
    \/ Len(a) < Len(b)
    \/ /\ Len(a) = Len(b)
       /\ \E i \in 1..Len(a) :
              /\ SubSeq(a, 1, i - 1) = SubSeq(b, 1, i - 1)
              /\ DigitVal(CharAt(a, i)) < DigitVal(CharAt(b, i))

\* str::parse::<u32>(): an optional "+", then one or more decimal digits whose
\* value fits 32 bits; Err for anything else (empty, a lone sign, "-", overflow)
parse_u32(s) ==
    LET ds == IF starts_with(s, "+") THEN SubSeq(s, 2, Len(s)) ELSE s
    IN  IF /\ Len(ds) >= 1
           /\ \A i \in 1..Len(ds) : IsDigit(CharAt(ds, i))
           /\ ~ NumeralLess(U32_MAX, Canonical(ds))
        THEN [ok |-> TRUE, value |-> Canonical(ds)]
        ELSE [ok |-> FALSE, value |-> ""]

-----------------------------------------------------------------------------
(* parse_file_with_line_range                                              *)

\* the position of the colon that starts the range part
colon_pos_first(file_arg) == find(file_arg, ":")
colon_pos(file_arg) == rfind(file_arg, ":")

\* the position, in the range part, of the dash between start and end
dash_pos(range_part) == find(range_part, "-")

parse_file_with_line_range(file_arg) ==
    LET whole == [file_path |-> file_arg, line_range |-> None]
    IN  IF colon_pos(file_arg) = 0 THEN whole
        ELSE
          LET file_path  == SubSeq(file_arg, 1, colon_pos(file_arg) - 1)
              range_part == SubSeq(file_arg, colon_pos(file_arg) + 1, Len(file_arg))
          IN  IF dash_pos(range_part) # 0
              THEN LET start == parse_u32(SubSeq(range_part, 1, dash_pos(range_part) - 1))
                       end   == parse_u32(SubSeq(range_part, dash_pos(range_part) + 1,
                                                 Len(range_part)))
                   IN  IF start.ok /\ end.ok
                       THEN [file_path |-> file_path,
                             line_range |-> Some(<<start.value, end.value>>)]
                       ELSE whole
              ELSE LET line == parse_u32(range_part)
                   IN  IF line.ok
                       THEN [file_path |-> file_path,
                             line_range |-> Some(<<line.value, line.value>>)]
                       ELSE whole

-----------------------------------------------------------------------------
(* The command line left by Cli::parse().                                  *)

\* all sequences over S of length at most n
RECURSIVE BoundedSeq(_, _)
BoundedSeq(S, n) ==
    IF n = 0 THEN { << >> }
    ELSE LET shorter == BoundedSeq(S, n - 1)
         IN  shorter \cup { Append(q, x) : q \in shorter, x \in S }

\* all strings over the characters A of length at most n
RECURSIVE Strings(_, _)
Strings(A, n) ==
    IF n = 0 THEN { "" }
    ELSE LET shorter == Strings(A, n - 1)
         IN  shorter \cup { w \o c : w \in shorter, c \in A }

FileAlphabet == {"f", ":", "-", "1", "+"}

\* the blame targets of the documentation and of the integer width
NamedFileArgs ==
    {"file.rs:10-20", "file.rs:10", "file.rs", "a:b:10-20", "file.rs:abc",
     "f:1-2-3", "f:20-10", "f:4294967295", "f:4294967296", "f:1-4294967296",
     "f:007", "f:0-00", "src/a-b.rs:7", "report:10"}

FileArgs == Strings(FileAlphabet, MaxFileLen) \cup NamedFileArgs

NoCommand == [type |-> "None"]

\* enum Commands
Commands ==
    [type : {"Checkpoint"}, author : {None, Some("claude")},
     show_working_log : BOOLEAN, reset : BOOLEAN, model : {None, Some("m1")}]
    \cup [type : {"Blame"}, file : FileArgs]
    \cup [type : {"Stats"}, sha : {None, Some("abc123")}]

\* trailing arguments of a proxied git command
ArgPool == {"origin", "up", "--tags"}
ArgLists == BoundedSeq(ArgPool, MaxArgs)

-----------------------------------------------------------------------------
(* The environment of the process and git's configuration store.           *)

\* a value that is not valid Unicode (an OsString that is no String)
NonUnicode == "<bytes that are not valid unicode>"

ENV_BASE == { <<"PATH", "/usr/bin">>, <<"HOME", "/home/u">> }
ENV_BACKTRACE == ENV_BASE \cup { <<"RUST_BACKTRACE", "1">> }
ENV_NON_UNICODE == ENV_BASE \cup { <<"LC_NAME", NonUnicode>> }

Remotes == {"origin", "up"}

\* format!("remote.{}.fetch", remote), format!("remote.{}.push", remote)
fetch_key(remote) == "remote." \o remote \o ".fetch"
push_key(remote) == "remote." \o remote \o ".push"

ConfigKeys == { fetch_key(r) : r \in Remotes } \cup { push_key(r) : r \in Remotes }

\* "+refs/ai/authorship/*:refs/remotes/{}/ai/authorship/*"
fetch_authorship_refspec_origin(remote) ==
    "+refs/ai/authorship/*:refs/remotes/origin/ai/authorship/*"
fetch_authorship_refspec(remote) ==
    "+refs/ai/authorship/*:refs/remotes/" \o remote \o "/ai/authorship/*"

push_authorship_refspec_forced == "+refs/ai/authorship/*:refs/ai/authorship/*"
push_authorship_refspec == "refs/ai/authorship/*:refs/ai/authorship/*"

\* values a remote's fetch or push key may hold: a plain refspec, one written
\* with surrounding blanks, an empty value, and the authorship refspecs
RefspecValues ==
    { "+refs/heads/*:refs/remotes/origin/*",
      "\trefs/tags/*:refs/tags/* ",
      "",
      "+refs/ai/authorship/*:refs/remotes/origin/ai/authorship/*",
      "refs/ai/authorship/*:refs/ai/authorship/*" }

\* configuration stores with one key populated
GitConfigs ==
    { [k \in ConfigKeys |-> IF k = k0 THEN vs ELSE << >>] :
          k0 \in ConfigKeys, vs \in BoundedSeq(RefspecValues, MaxRefspecs) }

DefaultGitConfig ==
    [k \in ConfigKeys |-> << "+refs/heads/*:refs/remotes/origin/*" >>]

\* the values of a key, none when the key is not set
ConfigValues(key) == IF key \in DOMAIN git_config THEN git_config[key] ELSE << >>

\* exit statuses of a child: a code, or none when a signal ended it
ChildCodes == {0, 1, 2, 127, 128, 255}
ExitStatuses == [code : { Some(c) : c \in ChildCodes } \cup { None }]

\* ExitStatus::success()
success(status) == status.code = Some(0)

\* ExitStatus::code().unwrap_or(1)
code_unwrap_or_1(status) == IF IsSome(status.code) THEN Unwrap(status.code) ELSE 1

-----------------------------------------------------------------------------
(* Helpers of the refspec augmentation.                                    *)

\* args.is_empty() || (args.len() == 1 && !args[0].starts_with('-'))
is_simple_ignoring_flags(args) == Len(args) <= 1
is_simple(args) == args = << >> \/ (Len(args) = 1 /\ ~ starts_with(args[1], "-"))

\* args.first().map(|s| s.as_str()).unwrap_or("origin")
remote_of(args) == IF args # << >> THEN args[1] ELSE "origin"

\* new_args = args.to_vec(), the fallback when no repository is found
fallback_args(args) == args

\* what `git config --get-all <key>` prints: every value of the key on a line
RECURSIVE ConfigOutput(_)
ConfigOutput(values) ==
    IF values = << >> THEN ""
    ELSE Head(values) \o "\n" \o ConfigOutput(Tail(values))

\* the results Command::output() can have for `git config --get-all <key>`:
\* Err when git cannot be spawned; exit 0 and the values when the key is set;
\* exit 1 and nothing when it is not; exit 128 when git itself fails
GitConfigGetAll(key) ==
    { [ok |-> FALSE, status |-> [code |-> None], stdout |-> ""],
      [ok |-> TRUE, status |-> [code |-> Some(128)], stdout |-> ""],
      IF ConfigValues(key) = << >>
      THEN [ok |-> TRUE, status |-> [code |-> Some(1)], stdout |-> ""]
      ELSE [ok |-> TRUE, status |-> [code |-> Some(0)],
            stdout |-> ConfigOutput(ConfigValues(key))] }

\* .lines().map(|s| s.trim().to_string()).filter(|s| !s.is_empty()).collect()
collect_refspecs(stdout) ==
    LET ls      == lines(stdout)
        trimmed == [i \in 1..Len(ls) |-> trim(ls[i])]
        NonEmpty(r) == r # ""
    IN  SelectSeq(trimmed, NonEmpty)

\* get_fetch_refspecs, from the result of its query
get_fetch_refspecs(output) ==
    IF output.ok /\ success(output.status) THEN collect_refspecs(output.stdout) ELSE << >>

\* get_push_refspecs, from the result of its query
get_push_refspecs(output) ==
    IF output.ok /\ success(output.status) THEN collect_refspecs(output.stdout) ELSE << >>

\* env::vars(): panics when a key or a value is not valid Unicode
env_vars_panics == \E kv \in environ : kv[1] = NonUnicode \/ kv[2] = NonUnicode

\* eprint_debug: the line it writes, nothing outside development mode
is_dev ==
    \/ \E kv \in environ : kv[1] = "CARGO_RUNNING"
    \/ \E kv \in environ : kv[1] = "RUST_BACKTRACE"
    \/ debug_assertions
eprint_debug(msg) == IF is_dev THEN << "[git-ai] " \o msg >> ELSE << >>

-----------------------------------------------------------------------------
(* The invocations checked.                                                 *)

Invocation(command, args, env, debug, config) ==
    [cli |-> [command |-> command, git_args |-> args],
     environ |-> env, debug_assertions |-> debug, git_config |-> config]

\* git-ai checkpoint | blame <file> | stats [sha]
IntrinsicInvocations ==
    { Invocation(c, << >>, ENV_BASE, FALSE, DefaultGitConfig) : c \in Commands }

\* git-ai
EmptyInvocations ==
    { Invocation(NoCommand, << >>, e, d, DefaultGitConfig) :
          e \in {ENV_BASE, ENV_NON_UNICODE}, d \in BOOLEAN }

\* git-ai commit ...
CommitInvocations ==
    { Invocation(NoCommand, << "commit" >> \o a, ed[1], ed[2], DefaultGitConfig) :
          a \in ArgLists,
          ed \in { <<ENV_BASE, FALSE>>, <<ENV_BASE, TRUE>>, <<ENV_BACKTRACE, FALSE>>,
                   <<ENV_NON_UNICODE, FALSE>> } }

\* git-ai blame ..., reached when clap leaves "blame" among the trailing arguments
BlameInvocations ==
    { Invocation(NoCommand, << "blame" >> \o a, ENV_BASE, FALSE, DefaultGitConfig) :
          a \in { << >> } \cup { << f >> : f \in FileArgs }
                \cup { << f, x >> : f \in NamedFileArgs, x \in {"-L", "other.rs:3"} } }

\* git-ai fetch|push ...
AugmentedInvocations ==
    { Invocation(NoCommand, << c >> \o a, e, FALSE, g) :
          c \in {"fetch", "push"}, a \in { x \in ArgLists : is_simple(x) },
          e \in {ENV_BASE}, g \in GitConfigs }
    \cup
    { Invocation(NoCommand, << c >> \o a, e, FALSE, DefaultGitConfig) :
          c \in {"fetch", "push"}, a \in ArgLists, e \in {ENV_BASE, ENV_NON_UNICODE} }

\* git-ai <any other git command> ...
PassthroughInvocations ==
    { Invocation(NoCommand, << c >> \o a, e, FALSE, DefaultGitConfig) :
          c \in {"status", "pull"}, a \in ArgLists, e \in {ENV_BASE, ENV_NON_UNICODE} }

Invocations ==
    IntrinsicInvocations \cup EmptyInvocations \cup CommitInvocations
        \cup BlameInvocations \cup AugmentedInvocations \cup PassthroughInvocations

Init ==
    /\ \E inv \in Invocations :
           /\ cli = inv.cli
           /\ environ = inv.environ
           /\ debug_assertions = inv.debug_assertions
           /\ git_config = inv.git_config
    /\ pc = "main"
    /\ repo = FALSE
    /\ default_user_name = ""
    /\ new_args = << >>
    /\ calls = << >>
    /\ stderr = << >>
    /\ exit_code = None

\* let git_command = &cli.git_args[0]; let git_args = &cli.git_args[1..];
git_command == cli.git_args[1]
git_args == Tail(cli.git_args)

inputs == <<cli, environ, debug_assertions, git_config>>

-----------------------------------------------------------------------------
(* Steps shared by the handlers.                                           *)

\* std::process::exit(code), after writing `msgs` to the error stream
Exit(code, msgs) ==
    /\ pc' = "exited"
    /\ exit_code' = Some(code)
    /\ stderr' = stderr \o msgs

\* the handler goes on to position `next`, after writing `msgs`
Goto(next, msgs) ==
    /\ pc' = next
    /\ exit_code' = exit_code
    /\ stderr' = stderr \o msgs

Call(record) == calls' = Append(calls, record)

\* find_repository() and the match on its result, as the three handlers that
\* cannot go on without a repository write it
FindRepositoryOrExit_going_on(next) ==
    \E found \in BOOLEAN :
        /\ Call([op |-> "find_repository", ok |-> found])
        /\ repo' = found
        /\ Goto(next, IF found THEN << >> ELSE << "Failed to find repository" >>)
FindRepositoryOrExit(next) ==
    \E found \in BOOLEAN :
        /\ Call([op |-> "find_repository", ok |-> found])
        /\ repo' = found
        /\ IF found
           THEN Goto(next, << >>)
           ELSE Exit(1, << "Failed to find repository" >>)

\* repo.config() and config.get_string("user.name"): the configuration cannot
\* be opened, or user.name is not set, or it is
UserNameOutcomes ==
    { [config_ok |-> FALSE, name |-> None],
      [config_ok |-> TRUE, name |-> None],
      [config_ok |-> TRUE, name |-> Some("alice")] }

\* the default author the nested match yields
user_name_or_unknown_only_without_config(outcome) ==
    IF ~ outcome.config_ok THEN "unknown"
    ELSE IF IsSome(outcome.name) THEN Unwrap(outcome.name) ELSE ""
user_name_or_unknown(outcome) ==
    IF outcome.config_ok /\ IsSome(outcome.name) THEN Unwrap(outcome.name) ELSE "unknown"

-----------------------------------------------------------------------------
(* main                                                                    *)

UsageText ==
    << "Usage: git-ai <git-command> or git-ai <git-ai-command>",
       "Examples:",
       "  git-ai pull                    # git pull",
       "  git-ai commit -m 'message'     # git commit with pre/post hooks",
       "  git-ai checkpoint              # create checkpoint" >>

\* the exit code of an invocation without any command
usage_exit_code_success == 1 - 1
usage_exit_code == 1

Main ==
    /\ pc = "main"
    /\ IF cli.command # NoCommand
       THEN Goto("handle_git_ai_command", << >>)
       ELSE IF cli.git_args = << >>
       THEN Exit(usage_exit_code, UsageText)
       ELSE IF git_command = "commit" THEN Goto("handle_git_commit", << >>)
       ELSE IF git_command = "blame" THEN Goto("handle_git_blame", << >>)
       ELSE Goto("proxy_to_git", << >>)
    /\ UNCHANGED <<inputs, repo, default_user_name, new_args, calls>>

-----------------------------------------------------------------------------
(* handle_git_ai_command                                                   *)

AiFindRepository ==
    /\ pc = "handle_git_ai_command"
    /\ FindRepositoryOrExit("ai_user_name")
    /\ UNCHANGED <<inputs, default_user_name, new_args>>

AiUserName ==
    /\ pc = "ai_user_name"
    /\ \E outcome \in UserNameOutcomes :
           /\ Call([op |-> "user_name", config_ok |-> outcome.config_ok,
                    name |-> outcome.name])
           /\ default_user_name' = user_name_or_unknown(outcome)
           /\ Goto("ai_execute",
                   IF ~ outcome.config_ok
                   THEN << "Warning: Failed to get git config. Using 'unknown' as author." >>
                   ELSE IF outcome.name = None
                   THEN << "Warning: git user.name not configured. Using 'unknown' as author." >>
                   ELSE << >>)
    /\ UNCHANGED <<inputs, repo, new_args>>

\* the call of the authorship engine that the command stands for
EngineCall(command, ok) ==
    IF command.type = "Checkpoint"
    THEN [op |-> "checkpoint",
          author |-> IF IsSome(command.author) THEN Unwrap(command.author)
                     ELSE default_user_name,
          show_working_log |-> command.show_working_log,
          reset |-> command.reset,
          is_amend |-> FALSE,
          model |-> command.model,
          default_author |-> Some(default_user_name),
          ok |-> ok]
    ELSE IF command.type = "Blame"
    THEN LET target == parse_file_with_line_range(command.file)
         IN  [op |-> "blame", file_path |-> target.file_path,
              line_range |-> target.line_range, ok |-> ok]
    ELSE [op |-> "stats",
          sha |-> IF IsSome(command.sha) THEN Unwrap(command.sha) ELSE "HEAD",
          ok |-> ok]

AiExecute ==
    /\ pc = "ai_execute"
    /\ \E ok \in BOOLEAN :
           /\ Call(EngineCall(cli.command, ok))
           /\ IF ok
              THEN Exit(0, << >>)    \* the handler and main return
              ELSE Exit(1, << "Command failed" >>)
    /\ UNCHANGED <<inputs, repo, default_user_name, new_args>>

-----------------------------------------------------------------------------
(* handle_git_commit                                                       *)

CommitFindRepository ==
    /\ pc = "handle_git_commit"
    /\ FindRepositoryOrExit("commit_user_name")
    /\ UNCHANGED <<inputs, default_user_name, new_args>>

CommitUserName ==
    /\ pc = "commit_user_name"
    /\ \E outcome \in UserNameOutcomes :
           /\ Call([op |-> "user_name", config_ok |-> outcome.config_ok,
                    name |-> outcome.name])
           /\ default_user_name' = user_name_or_unknown(outcome)
           /\ Goto("commit_pre_commit", << >>)
    /\ UNCHANGED <<inputs, repo, new_args>>

\* if let Err(e) = commands::pre_commit(..) { ...; exit(1) }
pre_commit_aborts_never(ok) == FALSE
pre_commit_aborts(ok) == ~ ok

CommitPreCommit ==
    /\ pc = "commit_pre_commit"
    /\ \E ok \in BOOLEAN :
           /\ Call([op |-> "pre_commit", author |-> default_user_name, ok |-> ok])
           /\ IF pre_commit_aborts(ok)
              THEN Exit(1, << "Pre-commit hook failed" >>)
              ELSE Goto("commit_git", eprint_debug("ran pre-commit hook"))
    /\ UNCHANGED <<inputs, repo, default_user_name, new_args>>

\* a child running git: its arguments, the environment it sees, where its
\* standard output goes, and how Command::status() or ::output() ended
Spawn(args, env, stdout, result) ==
    [op |-> "spawn", program |-> "git", args |-> args, env |-> env,
     stdout |-> stdout, result |-> result]

\* the results Command::status() can have: Err, or the child's exit status
StatusResults ==
    { [ok |-> FALSE, status |-> [code |-> None]] }
        \cup { [ok |-> TRUE, status |-> st] : st \in ExitStatuses }

\* if !status.success() { exit(status.code().unwrap_or(1)) }
commit_failed_never(status) == FALSE
commit_failed(status) == ~ success(status)

commit_exit_code_one(status) == 1
commit_exit_code(status) == code_unwrap_or_1(status)

CommitGit ==
    /\ pc = "commit_git"
    /\ \E r \in StatusResults :
           /\ Call(Spawn(<< "commit" >> \o git_args, environ, "inherit", r))
           /\ IF ~ r.ok
              THEN Exit(1, eprint_debug("Failed to execute git commit"))
              ELSE IF commit_failed(r.status)
              THEN Exit(commit_exit_code(r.status), << >>)
              ELSE Goto("commit_post_commit", << >>)
    /\ UNCHANGED <<inputs, repo, default_user_name, new_args>>

\* the exit code after post_commit: its error is only written, then the
\* handler and main return
post_commit_exit_code_fatal(ok) == IF ok THEN 0 ELSE 1
post_commit_exit_code(ok) == 0

CommitPostCommit ==
    /\ pc = "commit_post_commit"
    /\ \E ok \in BOOLEAN :
           /\ Call([op |-> "post_commit", is_amend |-> FALSE, ok |-> ok])
           /\ Exit(post_commit_exit_code(ok),
                   (IF ok THEN << >> ELSE << "Post-commit hook failed" >>)
                       \o eprint_debug("ran post-commit hook"))
    /\ UNCHANGED <<inputs, repo, default_user_name, new_args>>

-----------------------------------------------------------------------------
(* proxy_to_git                                                            *)

\* the match on the command, up to the first call that leaves the process
ProxyToGit_augmenting_any_command ==
    /\ pc = "proxy_to_git"
    /\ IF is_simple(git_args)
       THEN /\ Goto("proxy_find_repository", << >>)
            /\ new_args' = << >>
       ELSE /\ Goto("proxy_status", << >>)
            /\ new_args' = git_args
    /\ UNCHANGED <<inputs, repo, default_user_name, calls>>
ProxyToGit ==
    /\ pc = "proxy_to_git"
    /\ IF git_command \in {"fetch", "push"} /\ is_simple(git_args)
       THEN /\ Goto("proxy_find_repository", << >>)
            /\ new_args' = << >>                   \* Vec::new()
       ELSE /\ Goto("proxy_status", << >>)
            /\ new_args' = git_args                \* git_cmd.args(args)
    /\ UNCHANGED <<inputs, repo, default_user_name, calls>>

\* if let Ok(repo) = find_repository() { .. } else { new_args = args.to_vec() }
ProxyFindRepository ==
    /\ pc = "proxy_find_repository"
    /\ \E found \in BOOLEAN :
           /\ Call([op |-> "find_repository", ok |-> found])
           /\ repo' = found
           /\ IF found
              THEN /\ Goto("proxy_refspecs", << >>)
                   /\ new_args' = << remote_of(git_args) >>
              ELSE /\ Goto("proxy_status", << >>)
                   /\ new_args' = fallback_args(git_args)
    /\ UNCHANGED <<inputs, default_user_name>>

\* the configured refspecs and the authorship refspec, pushed after the remote
fetch_new_args(remote, refspecs) ==
    << remote >> \o refspecs \o << fetch_authorship_refspec(remote) >>

push_new_args(remote, refspecs) ==
    << remote >> \o refspecs \o << push_authorship_refspec >>

ProxyRefspecs ==
    /\ pc = "proxy_refspecs"
    /\ LET remote == new_args[1]
           key    == IF git_command = "fetch" THEN fetch_key(remote) ELSE push_key(remote)
       IN  \E output \in GitConfigGetAll(key) :
               /\ Call(Spawn(<< "config", "--get-all", key >>, environ, "piped", output))
               /\ new_args' = IF git_command = "fetch"
                              THEN fetch_new_args(remote, get_fetch_refspecs(output))
                              ELSE push_new_args(remote, get_push_refspecs(output))
    /\ Goto("proxy_status", << >>)
    /\ UNCHANGED <<inputs, repo, default_user_name>>

\* the environment a child sees: the inherited one, overridden by the
\* variables set on the Command
ChildEnv_without_path(inherited, set) ==
    { kv \in set : kv[1] # "PATH" }
ChildEnv(inherited, set) ==
    { kv \in inherited : \A s \in set : s[1] # kv[1] } \cup set

proxy_exit_code_one(status) == 1
proxy_exit_code(status) == code_unwrap_or_1(status)

\* for (key, value) in env::vars() { git_cmd.env(key, value) }, then
\* git_cmd.status() and the exit with its code
ProxyStatus ==
    /\ pc = "proxy_status"
    /\ IF env_vars_panics
       THEN /\ Exit(101, << "thread 'main' panicked" >>)
            /\ UNCHANGED calls
       ELSE \E r \in StatusResults :
               /\ Call(Spawn(<< git_command >> \o new_args,
                             ChildEnv(environ, environ), "inherit", r))
               /\ IF ~ r.ok
                  THEN Exit(1, << "Failed to execute git " \o git_command >>)
                  ELSE Exit(proxy_exit_code(r.status), << >>)
    /\ UNCHANGED <<inputs, repo, default_user_name, new_args>>

-----------------------------------------------------------------------------
(* handle_git_blame                                                        *)

BlameFindRepository ==
    /\ pc = "handle_git_blame"
    /\ FindRepositoryOrExit("blame_run")
    /\ UNCHANGED <<inputs, default_user_name, new_args>>

BlameRun_parsing_last_argument ==
    /\ pc = "blame_run"
    /\ IF git_args = << >>
       THEN /\ Exit(1, << "Usage: git-ai blame <file>" >>)
            /\ UNCHANGED calls
       ELSE LET target == parse_file_with_line_range(git_args[Len(git_args)])
            IN  \E ok \in BOOLEAN :
                    /\ Call([op |-> "blame", file_path |-> target.file_path,
                             line_range |-> target.line_range, ok |-> ok])
                    /\ IF ok THEN Exit(0, << >>) ELSE Exit(1, << "Blame failed" >>)
    /\ UNCHANGED <<inputs, repo, default_user_name, new_args>>
BlameRun ==
    /\ pc = "blame_run"
    /\ IF git_args = << >>
       THEN /\ Exit(1, << "Usage: git-ai blame <file>" >>)
            /\ UNCHANGED calls
       ELSE LET target == parse_file_with_line_range(git_args[1])
            IN  \E ok \in BOOLEAN :
                    /\ Call([op |-> "blame", file_path |-> target.file_path,
                             line_range |-> target.line_range, ok |-> ok])
                    /\ IF ok
                       THEN Exit(0, << >>)    \* the handler and main return
                       ELSE Exit(1, << "Blame failed" >>)
    /\ UNCHANGED <<inputs, repo, default_user_name, new_args>>

-----------------------------------------------------------------------------
(* The specification.                                                      *)

Next ==
    \/ Main
    \/ AiFindRepository
    \/ AiUserName
    \/ AiExecute
    \/ CommitFindRepository
    \/ CommitUserName
    \/ CommitPreCommit
    \/ CommitGit
    \/ CommitPostCommit
    \/ ProxyToGit
    \/ ProxyFindRepository
    \/ ProxyRefspecs
    \/ ProxyStatus
    \/ BlameFindRepository
    \/ BlameRun

Spec == Init /\ [][Next]_vars

-----------------------------------------------------------------------------
(* Vocabulary of the properties.                                           *)

Exited == pc = "exited"

\* the invocation is `git-ai <name> ...`, proxied (no intrinsic subcommand)
Proxied(name) ==
    cli.command = NoCommand /\ cli.git_args # << >> /\ cli.git_args[1] = name

\* the invocation goes to proxy_to_git
IsPassthrough ==
    /\ cli.command = NoCommand
    /\ cli.git_args # << >>
    /\ cli.git_args[1] \notin {"commit", "blame"}

CallIndices == 1..Len(calls)

\* the calls of one engine or locator operation
IsOp(i, op) == calls[i].op = op

\* a child spawned for the primary operation (standard streams inherited)
IsPrimarySpawn(i) == calls[i].op = "spawn" /\ calls[i].stdout = "inherit"

\* a captured refspec configuration query
IsConfigQuery(i) == calls[i].op = "spawn" /\ calls[i].stdout = "piped"

\* the child of call i ran and ended with this code
ChildExitedWith(i, c) ==
    IsPrimarySpawn(i) /\ calls[i].result.ok /\ calls[i].result.status.code = Some(c)

\* the child of call i ran and ended without a code
ChildKilled(i) ==
    IsPrimarySpawn(i) /\ calls[i].result.ok /\ calls[i].result.status.code = None

-----------------------------------------------------------------------------
(* C1: in a commit invocation, when the pre-commit hook returns an error,   *)
(* no child is spawned for the native commit, the post-commit hook is not   *)
(* invoked, and the process has terminated with exit code 1.                *)

PreCommitFailed == \E i \in CallIndices : IsOp(i, "pre_commit") /\ ~ calls[i].ok

C1_PreCommitFailureAborts ==
    (Proxied("commit") /\ PreCommitFailed) =>
        /\ \A i \in CallIndices : calls[i].op # "spawn"
        /\ \A i \in CallIndices : calls[i].op # "post_commit"
        /\ Exited
        /\ exit_code = Some(1)

C1_Witness ==
    /\ Proxied("commit")
    /\ Len(cli.git_args) = 3
    /\ PreCommitFailed
    /\ Exited
    /\ "Pre-commit hook failed" = stderr[Len(stderr)]

(* C2: in a commit invocation whose pre-commit hook succeeded, when the     *)
(* native commit child exits with a non-zero code c, the post-commit hook   *)
(* is not invoked and the process has terminated with exactly the code c.   *)

C2_CommitFailureCodePropagates ==
    Proxied("commit") =>
        \A i \in CallIndices : \A c \in ChildCodes \ {0} :
            ChildExitedWith(i, c) =>
                /\ \E j \in 1..(i - 1) : IsOp(j, "pre_commit") /\ calls[j].ok
                /\ \A j \in CallIndices : calls[j].op # "post_commit"
                /\ Exited
                /\ exit_code = Some(c)

C2_Witness ==
    /\ Proxied("commit")
    /\ \E i \in CallIndices : ChildExitedWith(i, 127)
    /\ exit_code = Some(127)

(* C3: in a commit invocation, when the native commit child exits with 0    *)
(* the post-commit hook is the next thing invoked, and the process then     *)
(* terminates with exit code 0 whether or not that hook failed.             *)

CommitSucceeded == \E i \in CallIndices : ChildExitedWith(i, 0)

PostCommitCalls == { i \in CallIndices : IsOp(i, "post_commit") }

C3_PostCommitFailureNotFatal ==
    (Proxied("commit") /\ CommitSucceeded) =>
        /\ pc \in {"commit_post_commit", "exited"}
        /\ pc = "commit_post_commit" => PostCommitCalls = {} /\ exit_code = None
        /\ Exited =>
              /\ Cardinality(PostCommitCalls) = 1
              /\ \A i \in PostCommitCalls : ChildExitedWith(i - 1, 0)
              /\ exit_code = Some(0)

C3_Witness ==
    /\ Proxied("commit")
    /\ CommitSucceeded
    /\ \E i \in PostCommitCalls : ~ calls[i].ok
    /\ "Post-commit hook failed" \in { stderr[k] : k \in 1..Len(stderr) }
    /\ exit_code = Some(0)

(* C4: for every subcommand other than commit and blame (fetch and push     *)
(* included, augmented or not), once the child has run the process has      *)
(* exited with the child's exit code, or with 1 when the child ended        *)
(* without a code.                                                          *)

C4_ProxyExitCodeIsChilds ==
    IsPassthrough =>
        \A i \in CallIndices :
            /\ \A c \in ChildCodes :
                   ChildExitedWith(i, c) => Exited /\ exit_code = Some(c)
            /\ ChildKilled(i) => Exited /\ exit_code = Some(1)

\* an augmented fetch whose child exits with 127
C4_Witness ==
    /\ Proxied("fetch")
    /\ Len(new_args) > 2
    /\ \E i \in CallIndices : ChildExitedWith(i, 127)
    /\ exit_code = Some(127)

-----------------------------------------------------------------------------
(* Vocabulary of the fetch and push properties.                            *)

\* zero arguments, or exactly one argument that does not begin with "-"
SimpleArguments ==
    \/ Len(cli.git_args) = 1
    \/ Len(cli.git_args) = 2 /\ SubSeq(cli.git_args[2], 1, 1) # "-"

\* the single argument, or "origin" when there is none
R == IF Len(cli.git_args) = 2 THEN cli.git_args[2] ELSE "origin"

RepositoryResolved == \E i \in CallIndices : IsOp(i, "find_repository") /\ calls[i].ok
ResolutionFailed == \E i \in CallIndices : IsOp(i, "find_repository") /\ ~ calls[i].ok

\* the query for `key` was made and git answered it with exit code 0
QueryAnswered(key) ==
    \E i \in CallIndices :
        /\ IsConfigQuery(i)
        /\ calls[i].args = << "config", "--get-all", key >>
        /\ calls[i].result.ok
        /\ calls[i].result.status.code = Some(0)

\* the refspecs configured under `key`, in configuration order: the values
\* of the key without their surrounding whitespace, blank values left out;
\* none when the configuration query fails
ConfiguredRefspecs(key) ==
    LET values == ConfigValues(key)
        NotBlank(v) == trim(v) # ""
        kept == SelectSeq(values, NotBlank)
    IN  IF QueryAnswered(key) THEN [i \in 1..Len(kept) |-> trim(kept[i])] ELSE << >>

Occurrences(seq, x) == Cardinality({ k \in 1..Len(seq) : seq[k] = x })

FetchAuxiliary == "+refs/ai/authorship/*:refs/remotes/" \o R \o "/ai/authorship/*"

PushAuxiliary == "refs/ai/authorship/*:refs/ai/authorship/*"

\* the arguments after the subcommand that the child of call i was given
ChildArguments(i) == Tail(calls[i].args)

-----------------------------------------------------------------------------
(* C5 as stated: for a simple fetch with a resolved repository the child    *)
(* is given exactly [R, f1..fn, auxiliary], the auxiliary refspec names R   *)
(* and occurs exactly once, as the last element.                            *)

C5_AuxiliaryExactlyOnce ==
    (Proxied("fetch") /\ SimpleArguments /\ RepositoryResolved) =>
        \A i \in CallIndices :
            IsPrimarySpawn(i) =>
                /\ ChildArguments(i) =
                       << R >> \o ConfiguredRefspecs("remote." \o R \o ".fetch")
                               \o << FetchAuxiliary >>
                /\ Occurrences(ChildArguments(i), FetchAuxiliary) = 1

(* C5 as amended: for a simple fetch with a resolved repository the child   *)
(* is given exactly [R, f1..fn, auxiliary]; the auxiliary refspec names R   *)
(* and is the last element, and it occurs exactly once unless it is itself  *)
(* one of the configured refspecs f1..fn (it is appended unconditionally).  *)

C5_FetchArguments ==
    (Proxied("fetch") /\ SimpleArguments /\ RepositoryResolved) =>
        \A i \in CallIndices :
            IsPrimarySpawn(i) =>
                LET configured == ConfiguredRefspecs("remote." \o R \o ".fetch")
                    given      == ChildArguments(i)
                IN  /\ calls[i].args[1] = "fetch"
                    /\ given = << R >> \o configured \o << FetchAuxiliary >>
                    /\ given[1] = R
                    /\ given[Len(given)] = FetchAuxiliary
                    /\ Occurrences(given, FetchAuxiliary)
                           = 1 + Occurrences(configured, FetchAuxiliary)

\* `git-ai fetch up` with two refspecs configured for up, one written with blanks
C5_Witness ==
    /\ Proxied("fetch")
    /\ cli.git_args = << "fetch", "up" >>
    /\ git_config["remote.up.fetch"] =
           << "+refs/heads/*:refs/remotes/origin/*", "\trefs/tags/*:refs/tags/* " >>
    /\ \E i \in CallIndices :
           /\ IsPrimarySpawn(i)
           /\ calls[i].args =
                  << "fetch", "up", "+refs/heads/*:refs/remotes/origin/*",
                     "refs/tags/*:refs/tags/*",
                     "+refs/ai/authorship/*:refs/remotes/up/ai/authorship/*" >>

(* C6: for a simple push with a resolved repository the child is given      *)
(* exactly [R, p1..pn, "refs/ai/authorship/*:refs/ai/authorship/*"]: the    *)
(* push refspecs configured for R in order, then the same literal for       *)
(* every remote.                                                            *)

C6_PushArguments ==
    (Proxied("push") /\ SimpleArguments /\ RepositoryResolved) =>
        \A i \in CallIndices :
            IsPrimarySpawn(i) =>
                /\ calls[i].args[1] = "push"
                /\ ChildArguments(i) =
                       << R >> \o ConfiguredRefspecs("remote." \o R \o ".push")
                               \o << PushAuxiliary >>

\* `git-ai push` with two refspecs configured for origin
C6_Witness ==
    /\ Proxied("push")
    /\ cli.git_args = << "push" >>
    /\ git_config["remote.origin.push"] =
           << "\trefs/tags/*:refs/tags/* ", "+refs/heads/*:refs/remotes/origin/*" >>
    /\ \E i \in CallIndices :
           /\ IsPrimarySpawn(i)
           /\ calls[i].args =
                  << "push", "origin", "refs/tags/*:refs/tags/*",
                     "+refs/heads/*:refs/remotes/origin/*",
                     "refs/ai/authorship/*:refs/ai/authorship/*" >>

(* C7: for fetch and push with an argument list that is not simple, the     *)
(* child is given the original arguments unmodified, and neither the        *)
(* repository is resolved nor a refspec configuration query made.           *)

C7_ComplexArgumentsUntouched ==
    ((Proxied("fetch") \/ Proxied("push")) /\ ~ SimpleArguments) =>
        /\ \A i \in CallIndices : ~ IsOp(i, "find_repository")
        /\ \A i \in CallIndices : ~ IsConfigQuery(i)
        /\ \A i \in CallIndices : IsPrimarySpawn(i) => calls[i].args = cli.git_args
        /\ pc # "main" => pc \in {"proxy_to_git", "proxy_status", "exited"}

\* `git-ai fetch --tags`: one argument, a flag
C7_Witness ==
    /\ cli.git_args = << "fetch", "--tags" >>
    /\ \E i \in CallIndices : IsPrimarySpawn(i) /\ calls[i].args = << "fetch", "--tags" >>
    /\ Exited

(* C8: for a simple fetch or push whose repository resolution fails, the    *)
(* child is still spawned, with the original arguments (no "origin"         *)
(* supplied, no auxiliary refspec, no configuration query): the failure     *)
(* writes nothing, the process never exits before the native operation has  *)
(* been spawned, and it exits with the child's code.                        *)

C8_ResolutionFailureFallsBack ==
    ((Proxied("fetch") \/ Proxied("push")) /\ SimpleArguments /\ ResolutionFailed) =>
        /\ new_args = Tail(cli.git_args)
        /\ \A i \in CallIndices : ~ IsConfigQuery(i)
        /\ pc \in {"proxy_status", "exited"}
        /\ pc = "proxy_status" => exit_code = None /\ stderr = << >>
        /\ Exited => \E i \in CallIndices : IsPrimarySpawn(i)
        /\ \A i \in CallIndices :
               IsPrimarySpawn(i) =>
                   /\ calls[i].args = cli.git_args
                   /\ \A c \in ChildCodes :
                          ChildExitedWith(i, c) => exit_code = Some(c)
                   /\ "Failed to find repository" \notin { stderr[k] : k \in 1..Len(stderr) }

-----------------------------------------------------------------------------
(* Vocabulary of the blame-target property.                                *)

Contains(s, c) == \E k \in 1..Len(s) : SubSeq(s, k, k) = c

\* s parses as an unsigned integer, and the integer it parses to
IsUnsigned(s) == parse_u32(s).ok
Unsigned(s) == parse_u32(s).value

\* the splits of s at a character c: <<before, after>> with s = before c after
Splits(s, c) ==
    { << SubSeq(s, 1, k - 1), SubSeq(s, k + 1, Len(s)) >> :
          k \in { j \in 1..Len(s) : SubSeq(s, j, j) = c } }

\* the reference of the claim
BlameTargetReference(s) ==
    LET fallback == << s, None >>
    IN  IF ~ Contains(s, ":") THEN fallback
        ELSE
          \* the text before the last colon and the text after it
          LET pr == CHOOSE x \in Splits(s, ":") : ~ Contains(x[2], ":")
              p  == pr[1]
              r  == pr[2]
          IN  IF Contains(r, "-")
              THEN \* r at its first dash
                   LET ab == CHOOSE x \in Splits(r, "-") : ~ Contains(x[1], "-")
                   IN  IF IsUnsigned(ab[1]) /\ IsUnsigned(ab[2])
                       THEN << p, Some(<< Unsigned(ab[1]), Unsigned(ab[2]) >>) >>
                       ELSE fallback
              ELSE IF IsUnsigned(r)
                   THEN << p, Some(<< Unsigned(r), Unsigned(r) >>) >>
                   ELSE fallback

\* the blame target the invocation names: the file of the intrinsic blame,
\* the first argument of a proxied one
BlameArgument ==
    IF cli.command # NoCommand THEN cli.command.file ELSE cli.git_args[2]

BlameCalls == { i \in CallIndices : IsOp(i, "blame") }

(* C9: the blame-target parser agrees with the reference on every input:    *)
(* the blame query is always given the path and the range the reference     *)
(* yields for the target string (last colon, first dash, both numbers       *)
(* unsigned, the whole string as the path otherwise; inverted ranges kept). *)

\* what the blame query of call i was given
Queried(i) == << calls[i].file_path, calls[i].line_range >>

C9_ParserAgreesWithReference ==
    \A i \in BlameCalls :
        /\ Queried(i) = BlameTargetReference(BlameArgument)
        /\ BlameArgument = "a:b:10-20" => Queried(i) = << "a:b", Some(<< "10", "20" >>) >>
        /\ BlameArgument = "file.rs:abc" => Queried(i) = << "file.rs:abc", None >>
        /\ BlameArgument = "f:1-2-3" => Queried(i) = << "f:1-2-3", None >>
        /\ BlameArgument = "f:20-10" => Queried(i) = << "f", Some(<< "20", "10" >>) >>

\* "a:b:10-20" is queried as "a:b" with the range (10, 20)
C9_Witness ==
    /\ BlameCalls # {}
    /\ BlameArgument = "a:b:10-20"
    /\ \A i \in BlameCalls :
           calls[i].file_path = "a:b" /\ calls[i].line_range = Some(<< "10", "20" >>)

(* C10: an invocation with no intrinsic subcommand and no trailing          *)
(* arguments has, after its first step, terminated with exit code 1 and     *)
(* the usage text on the error stream, without resolving a repository,      *)
(* calling the authorship engine or spawning a child.                       *)

C10_NoArgumentsIsUsageError ==
    (cli.command = NoCommand /\ cli.git_args = << >> /\ pc # "main") =>
        /\ Exited
        /\ exit_code = Some(1)
        /\ Len(stderr) >= 1
        /\ stderr[1] = "Usage: git-ai <git-command> or git-ai <git-ai-command>"
        /\ calls = << >>
        /\ repo = FALSE

C10_Witness ==
    /\ cli.command = NoCommand
    /\ cli.git_args = << >>
    /\ Exited
    /\ stderr = UsageText

-----------------------------------------------------------------------------
(* Vocabulary of the spawn properties.                                     *)

StderrLines == { stderr[k] : k \in 1..Len(stderr) }

\* Command::status() of call i returned Err: git could not be spawned
SpawnFailed(i) == IsPrimarySpawn(i) /\ ~ calls[i].result.ok

\* a line on the error stream that reports the failed spawn, as println or
\* as the development printer writes it
SpawnFailureReported ==
    \/ ("Failed to execute git " \o cli.git_args[1]) \in StderrLines
    \/ ("[git-ai] Failed to execute git " \o cli.git_args[1]) \in StderrLines

(* C11: whenever the spawn of git for the primary operation fails, in a     *)
(* passthrough or in the native step of commit, the process has written     *)
(* the failure to the error stream and terminated with exit code 1, and     *)
(* on the commit path the post-commit hook has not run.                     *)

C11_SpawnFailureReported ==
    \A i \in CallIndices :
        SpawnFailed(i) =>
            /\ Exited
            /\ exit_code = Some(1)
            /\ SpawnFailureReported
            /\ \A j \in CallIndices : ~ IsOp(j, "post_commit")

(* C12: every child the process spawns (the passthrough child, the native   *)
(* commit child, the captured configuration queries) sees exactly the       *)
(* environment of the process: the same variables with the same values.     *)

C12_ChildrenSeeParentEnvironment ==
    \A i \in CallIndices :
        calls[i].op = "spawn" =>
            /\ \A kv \in environ : kv \in calls[i].env
            /\ \A kv \in calls[i].env : kv \in environ

\* an augmented push: the configuration query and the push both ran
C12_Witness ==
    /\ Proxied("push")
    /\ Cardinality(environ) >= 2
    /\ \E i, j \in CallIndices :
           /\ IsConfigQuery(i) /\ calls[i].env = environ
           /\ IsPrimarySpawn(j) /\ calls[j].env = environ /\ calls[j].result.ok

(* C13: for every subcommand other than commit, blame, fetch and push and   *)
(* every argument list, the child is given exactly the subcommand followed  *)
(* by the original arguments in their order, and nothing else is invoked    *)
(* before or after it: no repository resolution, no hook, no engine call,   *)
(* no configuration query.                                                  *)

IsPlainPassthrough == IsPassthrough /\ cli.git_args[1] \notin {"fetch", "push"}

C13_PlainPassthroughVerbatim ==
    IsPlainPassthrough =>
        /\ \A i \in CallIndices : IsPrimarySpawn(i) /\ calls[i].args = cli.git_args
        /\ Len(calls) <= 1
        /\ repo = FALSE
        /\ Len(calls) = 1 => Exited

\* `git-ai pull origin --tags`
C13_Witness ==
    /\ cli.git_args = << "pull", "origin", "--tags" >>
    /\ Len(calls) = 1
    /\ calls[1].args = << "pull", "origin", "--tags" >>
    /\ calls[1].result.ok
    /\ Exited

-----------------------------------------------------------------------------
(* The specification under which every step that is possible is taken: a   *)
(* hook that was called returns, a child that was spawned exits.           *)

FairSpec == Spec /\ WF_vars(Next)

-----------------------------------------------------------------------------
(* Vocabulary of the commit state machine.                                 *)

\* the operations of the calls so far, in order
Operations == [i \in CallIndices |-> calls[i].op]

CommitSequence == << "find_repository", "user_name", "pre_commit", "spawn", "post_commit" >>

\* call i completed successfully
Completed(i) ==
    IF calls[i].op = "spawn" THEN calls[i].result.ok /\ calls[i].result.status.code = Some(0)
    ELSE IF calls[i].op = "user_name" THEN TRUE    \* a failed lookup is a default, no failure
    ELSE calls[i].ok

\* the three ways a commit invocation ends
EndedByFailure ==
    /\ exit_code = Some(1)
    /\ \/ Operations = << "find_repository" >> /\ ~ calls[1].ok
       \/ Operations = SubSeq(CommitSequence, 1, 3) /\ ~ calls[3].ok
       \/ Operations = SubSeq(CommitSequence, 1, 4) /\ ~ calls[4].result.ok

EndedByChildCode ==
    /\ Operations = SubSeq(CommitSequence, 1, 4)
    /\ calls[4].result.ok
    /\ \/ \E c \in ChildCodes \ {0} :
              calls[4].result.status.code = Some(c) /\ exit_code = Some(c)
       \/ calls[4].result.status.code = None /\ exit_code = Some(1)

EndedAfterPostCommit ==
    /\ Operations = CommitSequence
    /\ exit_code = Some(0)

Number(b) == IF b THEN 1 ELSE 0

\* the steps so far are a prefix of resolution, identity, pre-commit, spawn,
\* post-commit, each one after its predecessor completed successfully, and
\* an invocation that has ended has ended in exactly one of the three ways
CommitOrder ==
    Proxied("commit") =>
        /\ Len(calls) <= Len(CommitSequence)
        /\ Operations = SubSeq(CommitSequence, 1, Len(calls))
        /\ \A i \in CallIndices : i < Len(calls) => Completed(i)
        /\ Exited =>
               Number(EndedByFailure) + Number(EndedByChildCode)
                   + Number(EndedAfterPostCommit) = 1
        /\ ~ Exited => exit_code = None /\ \A i \in CallIndices : Completed(i)

(* C14: a wrapped commit runs repository resolution, the pre-commit hook,   *)
(* the native commit and the post-commit hook in this order, each at most   *)
(* once and none before its predecessor completed successfully; when the    *)
(* hooks return and the child exits, it eventually terminates, in exactly   *)
(* one of: exit 1 from a resolution, pre-hook or spawn failure; exit with   *)
(* the child's non-zero code (1 when it has none); exit 0 after the         *)
(* post-commit hook returned.                                               *)

C14_CommitStateMachine == [] CommitOrder /\ (Proxied("commit") ~> Exited)

\* all five steps ran and the process exited 0
C14_Witness ==
    /\ Proxied("commit")
    /\ Operations = CommitSequence
    /\ EndedAfterPostCommit
    /\ Exited

-----------------------------------------------------------------------------
(* C15: in one invocation git is spawned for its primary operation at most  *)
(* once, and exactly once by the time the process has ended in every        *)
(* passthrough (fetch and push included, whatever augmentation did) and in  *)
(* every commit whose repository resolution and pre-commit hook succeeded;  *)
(* a captured configuration query is made at most once and before the       *)
(* primary spawn.                                                           *)

PrimarySpawns == { i \in CallIndices : IsPrimarySpawn(i) }

ConfigQueries == { i \in CallIndices : IsConfigQuery(i) }

PreCommitSucceeded == \E i \in CallIndices : IsOp(i, "pre_commit") /\ calls[i].ok

C15_PrimarySpawnExactlyOnce ==
    /\ Cardinality(PrimarySpawns) <= 1
    /\ Cardinality(ConfigQueries) <= 1
    /\ \A q \in ConfigQueries : \A p \in PrimarySpawns : q < p
    /\ (Exited /\ IsPassthrough) => Cardinality(PrimarySpawns) = 1
    /\ (Exited /\ Proxied("commit") /\ RepositoryResolved /\ PreCommitSucceeded) =>
           Cardinality(PrimarySpawns) = 1

(* C16: on the intrinsic path (checkpoint, blame, stats) and on the         *)
(* wrapped commit and blame paths, repository resolution is the first       *)
(* thing done, and when it fails the process has reported it and            *)
(* terminated with exit code 1 with no engine operation invoked and no      *)
(* child spawned.                                                           *)

NeedsRepository == cli.command # NoCommand \/ Proxied("commit") \/ Proxied("blame")

C16_ResolutionFailureIsFatal ==
    NeedsRepository =>
        /\ calls # << >> => calls[1].op = "find_repository"
        /\ ResolutionFailed =>
               /\ Exited
               /\ exit_code = Some(1)
               /\ stderr = << "Failed to find repository" >>
               /\ Len(calls) = 1

\* `git-ai checkpoint` outside a repository
C16_Witness ==
    /\ cli.command # NoCommand
    /\ cli.command.type = "Checkpoint"
    /\ ResolutionFailed
    /\ Exited

(* C17: on the intrinsic and commit paths the default author is looked up   *)
(* exactly once, right after the repository resolved; a failed lookup       *)
(* (configuration not opened, or user.name not set) does not end the        *)
(* process: the default author is "unknown" and the command goes on to the  *)
(* engine or the pre-commit hook with it; checkpoint is given the explicit  *)
(* author option as author when there is one, and the default as            *)
(* default_author in either case.                                           *)

Lookups == { i \in CallIndices : IsOp(i, "user_name") }

LookupFailed == \E i \in Lookups : ~ calls[i].config_ok \/ calls[i].name = None

\* what the default author has to be after the lookup
ExpectedDefaultAuthor ==
    IF LookupFailed THEN "unknown" ELSE CHOOSE n \in { calls[i].name[1] : i \in Lookups } : TRUE

C17_IdentityFallback ==
    (cli.command # NoCommand \/ Proxied("commit")) =>
        /\ Cardinality(Lookups) <= 1
        /\ Lookups # {} => Lookups = {2} /\ IsOp(1, "find_repository") /\ calls[1].ok
        /\ Len(calls) >= 3 => Lookups = {2}
        /\ Lookups # {} => default_user_name = ExpectedDefaultAuthor
        /\ (LookupFailed /\ Len(calls) = 2) =>
               /\ ~ Exited /\ exit_code = None
               /\ pc = IF Proxied("commit") THEN "commit_pre_commit" ELSE "ai_execute"
        /\ \A i \in CallIndices :
               /\ IsOp(i, "pre_commit") => calls[i].author = ExpectedDefaultAuthor
               /\ IsOp(i, "checkpoint") =>
                      /\ calls[i].default_author = Some(ExpectedDefaultAuthor)
                      /\ calls[i].author =
                             IF cli.command.author # None THEN cli.command.author[1]
                             ELSE ExpectedDefaultAuthor

\* `git-ai checkpoint --author claude` with user.name not set
C17_Witness ==
    /\ cli.command # NoCommand
    /\ \E i \in Lookups : calls[i].config_ok /\ calls[i].name = None
    /\ \E i \in CallIndices :
           /\ IsOp(i, "checkpoint")
           /\ calls[i].author = "claude"
           /\ calls[i].default_author = Some("unknown")

(* C18: for a simple fetch or push with a resolved repository, a failed     *)
(* configuration query (not spawned, or a non-zero exit) is an empty        *)
(* refspec list and no error: the child is still spawned, with exactly      *)
(* [R, auxiliary refspec]; and no blank or whitespace-only entry of a       *)
(* query's output is ever among the child's arguments.                      *)

QueryFailed ==
    \E i \in ConfigQueries :
        ~ (calls[i].result.ok /\ calls[i].result.status.code = Some(0))

Auxiliary == IF Proxied("fetch") THEN FetchAuxiliary ELSE PushAuxiliary

C18_QueryFailureIsEmptyList ==
    ((Proxied("fetch") \/ Proxied("push")) /\ SimpleArguments /\ RepositoryResolved) =>
        /\ QueryFailed =>
               /\ new_args = << R, Auxiliary >>
               /\ pc \in {"proxy_status", "exited"}
               /\ pc = "proxy_status" => exit_code = None /\ stderr = << >>
               /\ Exited => PrimarySpawns # {}
               /\ \A i \in PrimarySpawns :
                      calls[i].args = << cli.git_args[1], R, Auxiliary >>
        /\ \A i \in PrimarySpawns :
               \A k \in 3..Len(calls[i].args) :
                   /\ trim(calls[i].args[k]) # ""
                   /\ trim(calls[i].args[k]) = calls[i].args[k]

(* C19: a proxied blame never spawns git: after repository resolution it    *)
(* exits 1 with its usage line when there is no argument; otherwise it      *)
(* parses the first argument alone as the blame target, calls the blame     *)
(* query exactly once and exits 1 when the query fails, 0 when it           *)
(* succeeds.                                                                *)

C19_ProxiedBlame ==
    Proxied("blame") =>
        /\ \A i \in CallIndices : calls[i].op \in {"find_repository", "blame"}
        /\ Len(calls) <= 2
        /\ BlameCalls # {} => RepositoryResolved /\ Exited
        /\ (Exited /\ RepositoryResolved /\ Len(cli.git_args) = 1) =>
               /\ BlameCalls = {}
               /\ exit_code = Some(1)
               /\ stderr = << "Usage: git-ai blame <file>" >>
        /\ (Exited /\ RepositoryResolved /\ Len(cli.git_args) >= 2) =>
               /\ Cardinality(BlameCalls) = 1
               /\ \A i \in BlameCalls :
                      /\ Queried(i) = BlameTargetReference(cli.git_args[2])
                      /\ exit_code = Some(IF calls[i].ok THEN 0 ELSE 1)

\* `git-ai -- blame f:20-10 other.rs:3`: the second argument is ignored
C19_Witness ==
    /\ cli.git_args = << "blame", "f:20-10", "other.rs:3" >>
    /\ \E i \in BlameCalls :
           /\ calls[i].file_path = "f"
           /\ calls[i].line_range = Some(<< "20", "10" >>)
           /\ ~ calls[i].ok
    /\ exit_code = Some(1)

====
